---- MODULE Spec2Model ----
(***************************************************************************)
(* Model of the F1 2018 terminal dashboard (src/main.py).                  *)
(*                                                                         *)
(* print_telemetry is a single-threaded loop: it drains the packets        *)
(* yielded by get_telemetry(), keeps per-car caches of Motion, Status and  *)
(* Setup packets, builds the dictionary `data` on every Car Telemetry      *)
(* packet and hands it to draw_telemetry_box, and after the drain polls    *)
(* the keyboard once with getch().                                         *)
(*                                                                         *)
(* Conventions of the model                                                *)
(*   - Python's None is the integer None == -1 (car indices are >= 0).     *)
(*   - A Python dict is a function whose DOMAIN is its key set.            *)
(*   - m_fuelLoad is a float; it is modelled in thousandths, so that       *)
(*     round(fuel, 2) is a real rounding to a multiple of 10.              *)
(*   - The environment (packet source, keyboard, terminal size) is         *)
(*     nondeterministic.                                                   *)
(*   - The bar fill int((rpm / max_rpm) * bar_length) is computed as       *)
(*     Python computes it, in binary64 arithmetic on bit sequences.        *)
(*   - A cell's attribute is the foreground colour of its colour pair.     *)
(***************************************************************************)
EXTENDS Integers, Sequences, FiniteSets, TLC

VARIABLES
    state,             \* "Running" while inside `while True`, "Stopped" after return/break
    player_car_index,  \* main.py:173
    motion_data,       \* main.py:175
    status_data,       \* main.py:176
    car_setup_data,    \* main.py:177
    data,              \* main.py:172, the dictionary given to draw_telemetry_box
    screen,            \* what the last call of draw_telemetry_box drew
    height,            \* terminal size as last returned by stdscr.getmaxyx()
    width,
    keyq,              \* keys typed and not yet read by getch()
    last,              \* history: the last step of the loop
    early              \* history: cars_motion_data of the last Motion packet
                       \* ingested while player_car_index was None, until a
                       \* Motion packet is cached

vars == <<state, player_car_index, motion_data, status_data, car_setup_data,
          data, screen, height, width, keyq, last, early>>

----------------------------------------------------------------------------
(* Bounds of the model *)

\* number of unread keys the keyboard queue may hold
MaxKeys == 2

(* Program constants *)

\* Python's None (main.py:173); car indices are >= 0
None == -1

\* main.py:171
max_rpm == 15000
\* main.py:104
min_width == 75
\* main.py:105
min_height == 15
\* main.py:111
box_width == 75
\* main.py:112
box_height == 15

\* packet ids tested by print_telemetry
MotionId == 0
SetupId == 5
TelemetryId == 6
StatusId == 7
\* packet ids the loop has no branch for (1 is the Session packet)
OtherIds == {1}

----------------------------------------------------------------------------
(* Input domains *)

\* indices of the per-car arrays of a packet
Cars == {0, 1}

\* entries of cars_telemetry_data
SampleA ==
    [m_speed |-> 212, m_engineRPM |-> 11999, m_gear |-> 6,
     m_tyresSurfaceTemperature |-> <<90, 150, 151, 251>>,
     m_throttle |-> 100, m_brake |-> 0]
SampleB ==
    [m_speed |-> 80, m_engineRPM |-> 4000, m_gear |-> 2,
     m_tyresSurfaceTemperature |-> <<80, 80, 85, 85>>,
     m_throttle |-> 0, m_brake |-> 55]

\* cars_telemetry_data arrays
TelemetryArrays ==
    { [c \in Cars |-> IF c = 0 THEN SampleA ELSE SampleB],
      [c \in Cars |-> IF c = 0 THEN SampleB ELSE SampleA] }

\* cars_motion_data arrays: the lateral g-force of each car
MotionArrays ==
    { [c \in Cars |-> [m_gForceLateral |-> 2 + c]] }

\* cars_status_data arrays: the damage of the four tyres of each car
StatusArrays ==
    { [c \in Cars |-> [m_tyresDamage |-> <<50, 51, 75, 76 + c>>]] }

\* cars_setup_data arrays: m_fuelLoad in thousandths (42.0 and 10.257)
SetupArrays ==
    { [c \in Cars |-> [m_fuelLoad |-> IF c = 0 THEN 42000 ELSE 10257]],
      [c \in Cars |-> [m_fuelLoad |-> IF c = 0 THEN 10257 ELSE 42000]] }

\* (height, width) pairs the terminal may have
Sizes == { <<15, 75>>, <<15, 74>>, <<14, 75>> }

\* keys: the quit key and some other key
QuitKey == "q"
Keys == {QuitKey, "x"}
\* getch() returns -1 when the 500 ms timeout expires with no key
NoKey == "ERR"

\* the (packet_id, packet) pairs get_telemetry() yields; every packet has a
\* header with m_playerCarIndex
TelemetryEvents ==
    [kind : {TelemetryId}, header : Cars, cars : TelemetryArrays]
MotionEvents ==
    [kind : {MotionId}, header : Cars, cars : MotionArrays]
StatusEvents ==
    [kind : {StatusId}, header : Cars, cars : StatusArrays]
SetupEvents ==
    [kind : {SetupId}, header : Cars, cars : SetupArrays]
OtherEvents ==
    [kind : OtherIds, header : Cars]

----------------------------------------------------------------------------
(* Python helpers *)

EmptyDict == [k \in {} |-> 0]

\* dict.get(key, default)
Get(d, k, default) == IF k \in DOMAIN d THEN d[k] ELSE default

\* d[k] = v
Put(d, k, v) == [x \in (DOMAIN d) \cup {k} |-> IF x = k THEN v ELSE d[x]]

\* round(x, 2) on a value in thousandths (no input is an exact tie)
Round2(x) == ((x + 5) \div 10) * 10

----------------------------------------------------------------------------
(* draw_telemetry_box, main.py:90-151 *)

\* main.py:117-126, the values the panel shows
PanelContent(d) ==
    [engine_speed |-> Get(d, "engine_speed", 0),
     gear |-> Get(d, "gear", 0),
     engine_rpm |-> Get(d, "engine_rpm", 0),
     max_rpm |-> Get(d, "max_rpm", 15000),
     tire_temperatures |-> Get(d, "tire_temperatures", <<0, 0, 0, 0>>),
     tire_wear |-> Get(d, "tire_wear", <<0, 0, 0, 0>>),
     throttle |-> Get(d, "throttle", 0),
     g_force |-> Get(d, "g_force", 0),
     brake |-> Get(d, "brake", 0),
     fuel |-> Round2(Get(d, "fuel", 0))]

\* main.py:106 with `and` in place of `or`
TooSmallBoth(h, w) == w < min_width /\ h < min_height

\* main.py:106
TooSmall(h, w) == w < min_width \/ h < min_height

\* the result of draw_telemetry_box(stdscr, d) on a terminal of h rows and
\* w columns: the return value and what is on the surface afterwards
draw_telemetry_box(d, h, w) ==
    IF TooSmall(h, w)
    THEN [ok |-> FALSE, notice |-> TRUE, panel |-> <<>>]
    ELSE [ok |-> TRUE, notice |-> FALSE, panel |-> <<PanelContent(d)>>]

----------------------------------------------------------------------------
(* Python floats: IEEE 754 binary64 arithmetic on bit sequences             *)
(* A float is [exp, man]: man is the significand, Precision bits with the  *)
(* most significant first, and exp the number of its bits that lie before  *)
(* the binary point, so its value is man * 2^(exp - Precision).            *)

\* width of the significand of a Python float, as in main.py:18
Precision == 53

\* the number of binary digits of a natural number below 2^31
BitLen(v) == Cardinality({k \in 0..30 : 2^k <= v})

\* the w low binary digits of a natural number, most significant first
Digits(v, w) == [d \in 1..w |-> (v \div 2^(w - d)) % 2]

\* the binary digits of a natural number
Bin(v) == Digits(v, BitLen(v))

RECURSIVE IntOf(_)
\* the natural number a bit sequence of at most 30 digits denotes
IntOf(b) ==
    IF Len(b) = 0 THEN 0
    ELSE IF Len(b) = 1 THEN b[1]
    ELSE LET h == Len(b) \div 2
         IN IntOf(SubSeq(b, 1, h)) * 2^(Len(b) - h)
              + IntOf(SubSeq(b, h + 1, Len(b)))

\* bit i of a bit sequence that is followed by zeros
Bit(b, pos) == IF pos \in 1..Len(b) THEN b[pos] ELSE 0

\* b + 1 on a bit sequence that is not all ones
Inc(s) ==
    LET z == {u \in 1..Len(s) : s[u] = 0}
        top == CHOOSE u \in z : \A w \in z : w <= u
    IN [u \in 1..Len(s) |-> IF u < top THEN s[u] ELSE IF u = top THEN 1 ELSE 0]

\* the float nearest to the number whose binary digits are `bits`, the
\* first intLen of them before the binary point; `inexact` tells that the
\* number has non-zero digits beyond `bits`.  Ties go to the even significand.
Float(bits, intLen, inexact) ==
    LET ones == {o \in 1..Len(bits) : bits[o] = 1}
    IN IF ones = {}
       THEN [exp |-> 0, man |-> [m \in 1..Precision |-> 0]]
       ELSE LET p == CHOOSE o \in ones : \A j \in ones : o <= j
                man0 == [m \in 1..Precision |-> Bit(bits, p + m - 1)]
                guard == Bit(bits, p + Precision)
                rest == inexact \/ \E j \in ones : j > p + Precision
                up == guard = 1 /\ (rest \/ man0[Precision] = 1)
                carry == up /\ \A m \in 1..Precision : man0[m] = 1
            IN [exp |-> intLen - p + 1 + (IF carry THEN 1 ELSE 0),
                man |-> IF carry
                        THEN [m \in 1..Precision |-> IF m = 1 THEN 1 ELSE 0]
                        ELSE IF up THEN Inc(man0) ELSE man0]

RECURSIVE PowMod(_, _)
\* 2^k modulo m, for m below 2^15
PowMod(k, m) ==
    IF k = 0 THEN 1 % m
    ELSE LET h == PowMod(k \div 2, m)
         IN (((h * h) % m) * (IF k % 2 = 1 THEN 2 ELSE 1)) % m

\* digit k after the binary point of a / b
QuotBit(a, b, k) == (((a % (2 * b)) * PowMod(k, 2 * b)) % (2 * b)) \div b

\* a / b on two ints, 0 <= a and 0 < b < 2^14: the quotient correctly rounded
FloatDiv(a, b) ==
    LET n == Bin(a \div b)
        F == Precision + 1 + BitLen(b)
        frac == [k \in 1..F |-> QuotBit(a, b, k)]
    IN Float(n \o frac, Len(n), ((a % b) * PowMod(F, b)) % b # 0)

\* f * n for a float f and an int 0 <= n < 2^13: the product correctly
\* rounded.  The significand is multiplied in three limbs of w digits.
FloatMul(f, n) ==
    LET w == (Precision + 2) \div 3
        lo == IntOf(SubSeq(f.man, Precision - w + 1, Precision)) * n
        mid == IntOf(SubSeq(f.man, Precision - 2 * w + 1, Precision - w)) * n
                 + lo \div 2^w
        hi == IntOf(SubSeq(f.man, 1, Precision - 2 * w)) * n + mid \div 2^w
        prod == Bin(hi) \o Digits(mid % 2^w, w) \o Digits(lo % 2^w, w)
    IN Float(prod, Len(prod) - Precision + f.exp, FALSE)

\* int(f) for f >= 0: the digits before the binary point
FloatToInt(f) ==
    IF f.exp <= 0 THEN 0 ELSE IntOf(SubSeq(f.man, 1, f.exp))

----------------------------------------------------------------------------
(* The gauges and coloured lines of the panel, main.py:6-87 and 135-147 *)

\* main.py:165-169, the foreground colour of the colour pairs 1 to 5
init_pair == <<"WHITE", "GREEN", "RED", "MAGENTA", "YELLOW">>

\* curses.color_pair(n): the attribute of a cell is the colour it shows
color_pair(n) == init_pair[n]

\* one call win.addstr(y, x, str, attr)
addstr(y, x, str, attr) == [y |-> y, x |-> x, str |-> str, attr |-> attr]

\* main.py:17
bar_length == 30

\* main.py:18 as an integer division of rpm by max_rpm
bar_fill_floordiv(rpm, max) == (rpm \div max) * bar_length

\* main.py:18, bar_fill of draw_rpm_bar
bar_fill(rpm, max) == FloatToInt(FloatMul(FloatDiv(rpm, max), bar_length))

\* main.py:20-25 with `>` in place of `>=`
rpm_color_exclusive(rpm) ==
    IF rpm > 12000 THEN color_pair(4)
    ELSE IF rpm > 10000 THEN color_pair(3)
    ELSE color_pair(2)

\* main.py:20-25, color of draw_rpm_bar
rpm_color(rpm) ==
    IF rpm >= 12000 THEN color_pair(4)
    ELSE IF rpm >= 10000 THEN color_pair(3)
    ELSE color_pair(2)

\* draw_rpm_bar writing the readout with the colour of the bar
draw_rpm_bar_colored_readout(y, x, rpm, max) ==
    LET fill == bar_fill(rpm, max)
        color == rpm_color(rpm)
    IN [open |-> addstr(y, x, "[", color_pair(1)),
        cells |-> [i \in 0..(bar_length - 1) |->
                     addstr(y, x + 1 + i, IF i < fill THEN "|" ELSE " ", color)],
        close |-> addstr(y, x + 1 + bar_length, "]", color_pair(1)),
        readout |-> addstr(y, x + 1 + bar_length + 2, <<rpm, " RPM">>, color)]

\* draw_rpm_bar looping over range(bar_fill) when that is the longer range
draw_rpm_bar_unbounded(y, x, rpm, max) ==
    LET fill == bar_fill(rpm, max)
        color == rpm_color(rpm)
        cols == IF fill > bar_length THEN fill ELSE bar_length
    IN [open |-> addstr(y, x, "[", color_pair(1)),
        cells |-> [i \in 0..(cols - 1) |->
                     addstr(y, x + 1 + i, IF i < fill THEN "|" ELSE " ", color)],
        close |-> addstr(y, x + 1 + bar_length, "]", color_pair(1)),
        readout |-> addstr(y, x + 1 + bar_length + 2, <<rpm, " RPM">>,
                           color_pair(1))]

\* main.py:27-34, the addstr calls of draw_rpm_bar(win, y, x, rpm, max_rpm):
\* the opening bracket, the cell of every i in range(bar_length), the
\* closing bracket and the readout f"{rpm} RPM"
draw_rpm_bar(y, x, rpm, max) ==
    LET fill == bar_fill(rpm, max)
        color == rpm_color(rpm)
    IN [open |-> addstr(y, x, "[", color_pair(1)),
        cells |-> [i \in 0..(bar_length - 1) |->
                     addstr(y, x + 1 + i, IF i < fill THEN "|" ELSE " ", color)],
        close |-> addstr(y, x + 1 + bar_length, "]", color_pair(1)),
        readout |-> addstr(y, x + 1 + bar_length + 2, <<rpm, " RPM">>,
                           color_pair(1))]

\* main.py:45-46 and 72-73
bar_height == 10
bar_width == 2

\* main.py:47-60 and 74-87, draw_brake_bar and draw_accel_bar on a window of
\* nlines rows and ncols columns: nothing when the bar does not fit, else
\* the label and the cell of every i in range(bar_height), bottom-up
draw_vertical_bar(nlines, ncols, y, x, label, offset, value, color) ==
    LET fill == FloatToInt(FloatMul(FloatDiv(value, 100), bar_height))
    IN IF y + bar_height >= nlines \/ x + bar_width >= ncols
       THEN <<>>
       ELSE << [label |-> addstr(y, x, label, color_pair(1)),
                cells |-> [i \in 0..(bar_height - 1) |->
                             addstr(y + bar_height - i - 1, x + offset,
                                    IF i < fill THEN "|" ELSE " ", color)]] >>

\* main.py:137 with `<` in place of `<=`
temp_color_exclusive(temp) ==
    IF temp < 150 THEN color_pair(2)
    ELSE IF temp < 250 THEN color_pair(5)
    ELSE color_pair(3)

\* main.py:137, the colour of a temperature line
temp_color(temp) ==
    IF temp <= 150 THEN color_pair(2)
    ELSE IF temp <= 250 THEN color_pair(5)
    ELSE color_pair(3)

\* main.py:141, the colour of a wear line
wear_color(damage) ==
    IF damage > 75 THEN color_pair(3)
    ELSE IF damage > 50 THEN color_pair(5)
    ELSE color_pair(2)

\* main.py:135
tire_labels == <<"RL", "RR", "FL", "FR">>

\* curses.newwin(nlines, ncols, begin_y, begin_x): ncurses creates the window
\* whether or not it fits the terminal, and clips it when it is refreshed
newwin(nlines, ncols, begin_y, begin_x) ==
    [nlines |-> nlines, ncols |-> ncols, begin_y |-> begin_y, begin_x |-> begin_x]

\* main.py:114-147, telemetry_win after a successful draw_telemetry_box: the
\* window, its rpm gauge, its tyre lines and its two vertical gauges
telemetry_win(d) ==
    LET c == PanelContent(d)
        win == newwin(box_height, box_width, 1, 2)
    IN [win |-> win,
        rpm_bar |-> draw_rpm_bar(3, 2, c.engine_rpm, c.max_rpm),
        temperatures |->
          [i \in 1..4 |->
             addstr(9 + (i - 1), 2, <<tire_labels[i], c.tire_temperatures[i]>>,
                    temp_color(c.tire_temperatures[i]))],
        wear |->
          [i \in 1..4 |->
             addstr(9 + (i - 1), 30, <<tire_labels[i], c.tire_wear[i]>>,
                    wear_color(c.tire_wear[i]))],
        accel_bar |-> draw_vertical_bar(win.nlines, win.ncols, 3, 50,
                                        "Throttle:", 10, c.throttle,
                                        color_pair(2)),
        brake_bar |-> draw_vertical_bar(win.nlines, win.ncols, 3, 63,
                                        "Brake:", 7, c.brake, color_pair(3))]

----------------------------------------------------------------------------
(* print_telemetry, main.py:153-240 *)

\* a step of the loop: a packet of some kind ingested, or a key polled, and
\* the number of calls of draw_telemetry_box the step made
Step(op, kind, key, draws) ==
    [op |-> op, kind |-> kind, key |-> key, draws |-> draws]

Init ==
    /\ state = "Running"
    /\ player_car_index = None
    /\ motion_data = EmptyDict
    /\ status_data = EmptyDict
    /\ car_setup_data = EmptyDict
    /\ data = EmptyDict
    /\ screen = [notice |-> FALSE, panel |-> <<>>]
    /\ \E sz \in Sizes : height = sz[1] /\ width = sz[2]
    /\ keyq = <<>>
    /\ last = Step("start", None, NoKey, 0)
    /\ early = <<>>

\* FreshData reading the entry of the car tracked before the packet
FreshDataTracked(e, old) ==
    LET car == e.cars[IF player_car_index # None THEN player_car_index
                      ELSE e.header]
    IN [engine_speed |-> car.m_speed,
        engine_rpm |-> car.m_engineRPM,
        gear |-> car.m_gear,
        max_rpm |-> max_rpm,
        tire_temperatures |-> car.m_tyresSurfaceTemperature,
        throttle |-> car.m_throttle,
        brake |-> car.m_brake,
        fuel |-> Get(old, "fuel", 0)]

\* main.py:183-203, the dictionary as first assigned: the fields of the packet's
\* entry for the car its header names, and the fuel of the previous dictionary
FreshData(e, old) ==
    LET car == e.cars[e.header]
    IN [engine_speed |-> car.m_speed,
        engine_rpm |-> car.m_engineRPM,
        gear |-> car.m_gear,
        max_rpm |-> max_rpm,
        tire_temperatures |-> car.m_tyresSurfaceTemperature,
        throttle |-> car.m_throttle,
        brake |-> car.m_brake,
        fuel |-> Get(old, "fuel", 0)]

\* BuildData without main.py:212-214: the Setup cache is never read
BuildDataNoSetup(e, old, motion, status, setup) ==
    LET idx == e.header
        d0 == FreshData(e, old)
        d1 == IF idx \in DOMAIN motion
              THEN Put(d0, "g_force", motion[idx].m_gForceLateral) ELSE d0
        d2 == IF idx \in DOMAIN status
              THEN Put(d1, "tire_wear", status[idx].m_tyresDamage) ELSE d1
    IN d2

\* BuildData updating the previous dictionary in place instead of replacing it
BuildDataKeep(e, old, motion, status, setup) ==
    LET idx == e.header
        f == FreshData(e, old)
        d0 == [k \in (DOMAIN old) \cup (DOMAIN f) |->
                 IF k \in DOMAIN f THEN f[k] ELSE old[k]]
        d1 == IF idx \in DOMAIN motion
              THEN Put(d0, "g_force", motion[idx].m_gForceLateral) ELSE d0
        d2 == IF idx \in DOMAIN status
              THEN Put(d1, "tire_wear", status[idx].m_tyresDamage) ELSE d1
        d3 == IF idx \in DOMAIN setup
              THEN Put(d2, "fuel", setup[idx].m_fuelLoad) ELSE d2
    IN d3

\* main.py:183-214, the dictionary built from a Car Telemetry packet
BuildData(e, old, motion, status, setup) ==
    LET idx == e.header
        d0 == FreshData(e, old)
        d1 == IF idx \in DOMAIN motion
              THEN Put(d0, "g_force", motion[idx].m_gForceLateral) ELSE d0
        d2 == IF idx \in DOMAIN status
              THEN Put(d1, "tire_wear", status[idx].m_tyresDamage) ELSE d1
        d3 == IF idx \in DOMAIN setup
              THEN Put(d2, "fuel", setup[idx].m_fuelLoad) ELSE d2
    IN d3

\* main.py:181-217, packet_id == 6; h, w is what getmaxyx() returns
IngestTelemetry(e, h, w) ==
    /\ state = "Running"
    /\ e.kind = TelemetryId
    /\ LET d == BuildData(e, data, motion_data, status_data, car_setup_data)
           r == draw_telemetry_box(d, h, w)
       IN /\ player_car_index' = e.header
          /\ data' = d
          /\ screen' = [notice |-> r.notice, panel |-> r.panel]
          /\ height' = h
          /\ width' = w
          /\ state' = IF r.ok THEN "Running" ELSE "Stopped"
    /\ last' = Step("ingest", e.kind, NoKey, 1)
    /\ UNCHANGED <<motion_data, status_data, car_setup_data, keyq, early>>

\* the cache update keyed by the packet's own header instead of the tracked index
StoreByHeader(cache, idx, e) == Put(cache, e.header, e.cars[e.header])

\* the cache update storing the entry of every car the packet carries
StoreEveryCar(cache, idx, e) ==
    IF idx # None
    THEN [c \in (DOMAIN cache) \cup (DOMAIN e.cars) |->
            IF c \in DOMAIN e.cars THEN e.cars[c] ELSE cache[c]]
    ELSE cache

\* the cache update dropping every entry but the one it writes
StoreEvicting(cache, idx, e) ==
    IF idx # None THEN [c \in {idx} |-> e.cars[idx]] ELSE cache

\* the cache update of main.py:221-223, 227-229, 233-235
Store(cache, idx, e) ==
    IF idx # None THEN Put(cache, idx, e.cars[idx]) ELSE cache

\* the Motion branch with a call of draw_telemetry_box added
IngestMotionDrawing(e) ==
    /\ state = "Running"
    /\ e.kind = MotionId
    /\ motion_data' = Store(motion_data, player_car_index, e)
    /\ early' = IF player_car_index = None THEN <<e.cars>> ELSE <<>>
    /\ last' = Step("ingest", e.kind, NoKey, 1)
    /\ \E sz \in Sizes :
         LET r == draw_telemetry_box(data, sz[1], sz[2])
         IN /\ screen' = [notice |-> r.notice, panel |-> r.panel]
            /\ height' = sz[1]
            /\ width' = sz[2]
            /\ state' = IF r.ok THEN "Running" ELSE "Stopped"
    /\ UNCHANGED <<player_car_index, status_data, car_setup_data, data, keyq>>

\* main.py:219-223, packet_id == 0
IngestMotion(e) ==
    /\ state = "Running"
    /\ e.kind = MotionId
    /\ motion_data' = Store(motion_data, player_car_index, e)
    /\ early' = IF player_car_index = None THEN <<e.cars>> ELSE <<>>
    /\ last' = Step("ingest", e.kind, NoKey, 0)
    /\ UNCHANGED <<state, player_car_index, status_data, car_setup_data,
                   data, screen, height, width, keyq>>

\* the Status branch also taking the tracked index from the packet's header
IngestStatusTracking(e) ==
    /\ state = "Running"
    /\ e.kind = StatusId
    /\ player_car_index' = e.header
    /\ status_data' = Store(status_data, e.header, e)
    /\ last' = Step("ingest", e.kind, NoKey, 0)
    /\ UNCHANGED <<state, motion_data, car_setup_data,
                   data, screen, height, width, keyq, early>>

\* main.py:225-229, packet_id == 7
IngestStatus(e) ==
    /\ state = "Running"
    /\ e.kind = StatusId
    /\ status_data' = Store(status_data, player_car_index, e)
    /\ last' = Step("ingest", e.kind, NoKey, 0)
    /\ UNCHANGED <<state, player_car_index, motion_data, car_setup_data,
                   data, screen, height, width, keyq, early>>

\* the Setup branch without the `is not None` test, keyed by the header
IngestSetupByHeader(e) ==
    /\ state = "Running"
    /\ e.kind = SetupId
    /\ car_setup_data' = Put(car_setup_data, e.header, e.cars[e.header])
    /\ last' = Step("ingest", e.kind, NoKey, 0)
    /\ UNCHANGED <<state, player_car_index, motion_data, status_data,
                   data, screen, height, width, keyq, early>>

\* main.py:231-235, packet_id == 5
IngestSetup(e) ==
    /\ state = "Running"
    /\ e.kind = SetupId
    /\ car_setup_data' = Store(car_setup_data, player_car_index, e)
    /\ last' = Step("ingest", e.kind, NoKey, 0)
    /\ UNCHANGED <<state, player_car_index, motion_data, status_data,
                   data, screen, height, width, keyq, early>>

\* a packet id with no branch ending the loop
IngestOtherStopping(e) ==
    /\ state = "Running"
    /\ e.kind \notin {MotionId, SetupId, TelemetryId, StatusId}
    /\ state' = "Stopped"
    /\ last' = Step("ingest", e.kind, NoKey, 0)
    /\ UNCHANGED <<player_car_index, motion_data, status_data,
                   car_setup_data, data, screen, height, width, keyq, early>>

\* main.py:180-235, a packet id with no branch
IngestOther(e) ==
    /\ state = "Running"
    /\ e.kind \notin {MotionId, SetupId, TelemetryId, StatusId}
    /\ last' = Step("ingest", e.kind, NoKey, 0)
    /\ UNCHANGED <<state, player_car_index, motion_data, status_data,
                   car_setup_data, data, screen, height, width, keyq, early>>

\* stdscr.getch() with timeout(500): the oldest unread key, or -1
getch(q) == IF q = <<>> THEN NoKey ELSE Head(q)

\* main.py:239 ending the loop on any key
IsQuitAnyKey(k) == k # NoKey

\* main.py:239, the test that ends the loop
IsQuit(k) == k = QuitKey

\* main.py:237-240: get_telemetry() is exhausted, the for loop ends, the
\* screen is refreshed and one key is polled
PollKey ==
    /\ state = "Running"
    /\ LET k == getch(keyq)
       IN /\ keyq' = IF keyq = <<>> THEN keyq ELSE Tail(keyq)
          /\ state' = IF IsQuit(k) THEN "Stopped" ELSE "Running"
          /\ last' = Step("poll", None, k, 0)
    /\ UNCHANGED <<player_car_index, motion_data, status_data, car_setup_data,
                   data, screen, height, width, early>>

\* the user types a key; it waits in the input queue until getch() reads it
KeyPress(k) ==
    /\ state = "Running"
    /\ Len(keyq) < MaxKeys
    /\ keyq' = Append(keyq, k)
    /\ UNCHANGED <<state, player_car_index, motion_data, status_data,
                   car_setup_data, data, screen, height, width, last, early>>

----------------------------------------------------------------------------
(* Specifications *)

\* Spec: the loop fed every packet of the input domains; the keyboard types
\* the quit key only.
SpecKeys == {QuitKey}

Next ==
    \/ \E e \in TelemetryEvents, sz \in Sizes : IngestTelemetry(e, sz[1], sz[2])
    \/ \E e \in MotionEvents : IngestMotion(e)
    \/ \E e \in StatusEvents : IngestStatus(e)
    \/ \E e \in SetupEvents : IngestSetup(e)
    \/ \E e \in OtherEvents : IngestOther(e)
    \/ PollKey
    \/ \E k \in SpecKeys : KeyPress(k)

Spec == Init /\ [][Next]_vars

\* LoopSpec: the loop with every key of the input domains, fed the packets
\* whose header names the first car and that carry the first array of their
\* kind.
FirstCar(S) == {e \in S : e.header = 0}
LoopTelemetryEvents ==
    {e \in FirstCar(TelemetryEvents) : e.cars[0] = SampleA}
LoopSetupEvents ==
    {e \in FirstCar(SetupEvents) : e.cars[0].m_fuelLoad = 42000}

\* a step of the loop itself, as opposed to a step of the keyboard
LoopStep ==
    \/ \E e \in LoopTelemetryEvents, sz \in Sizes :
          IngestTelemetry(e, sz[1], sz[2])
    \/ \E e \in FirstCar(MotionEvents) : IngestMotion(e)
    \/ \E e \in FirstCar(StatusEvents) : IngestStatus(e)
    \/ \E e \in LoopSetupEvents : IngestSetup(e)
    \/ \E e \in FirstCar(OtherEvents) : IngestOther(e)
    \/ PollKey

LoopNext ==
    \/ LoopStep
    \/ \E k \in Keys : KeyPress(k)

LoopSpec == Init /\ [][LoopNext]_vars

\* The loop is the only thread: while it is Running it always takes its next
\* step.  Whether get_telemetry() yields another packet or ends is the
\* source's choice, so the fairness is on the loop's steps as a whole.
FairLoopSpec == LoopSpec /\ WF_vars(LoopStep)

\* RenderSpec: draw_telemetry_box called once on a dictionary and a terminal
\* size drawn from the input domains below.

\* values of m_engineRPM, an unsigned 16-bit integer: every multiple of 100
\* up to max_rpm, the value just below every multiple of 500 (the values at
\* which rpm * bar_length / max_rpm is a whole number), and values above
\* max_rpm
RpmInputs ==
    {100 * k : k \in 0..150} \cup {500 * k - 1 : k \in 1..30}
      \cup {1, 499, 10001, 12001, 15001, 15499, 15500, 29999, 30000,
            61500, 65535}

\* tyre temperatures and tyre damage of the four wheels
TemperatureInputs ==
    { <<150, 151, 250, 251>>, <<251, 150, 151, 250>>, <<250, 251, 150, 151>>,
      <<151, 250, 251, 150>>, <<0, 149, 249, 255>> }
WearInputs ==
    { <<50, 51, 75, 76>>, <<76, 50, 51, 75>>, <<75, 76, 50, 51>>,
      <<51, 75, 76, 50>>, <<0, 49, 74, 100>> }

\* throttle and brake, 0 to 100
PedalInputs == {0, 55, 100}

\* the dictionaries given to draw_telemetry_box: every rpm with one set of
\* tyres, and every set of tyres and pedals with one rpm
RenderData(rpm, temps, damage, throttle, brake) ==
    [engine_rpm |-> rpm, max_rpm |-> max_rpm, tire_temperatures |-> temps,
     tire_wear |-> damage, throttle |-> throttle, brake |-> brake]
RenderInputs ==
    {RenderData(rpm, <<90, 150, 151, 251>>, <<50, 51, 75, 76>>, 0, 0) :
       rpm \in RpmInputs}
    \cup {RenderData(11999, t, w, p, 100 - p) :
            t \in TemperatureInputs, w \in WearInputs, p \in PedalInputs}

\* (height, width) pairs of the terminal: the sizes of Sizes and sizes around
\* the extent of the panel
RenderSizes ==
    Sizes \cup { <<15, 77>>, <<16, 76>>, <<16, 77>>, <<24, 80>> }

RenderInit ==
    /\ state = "Running"
    /\ player_car_index = None
    /\ motion_data = EmptyDict
    /\ status_data = EmptyDict
    /\ car_setup_data = EmptyDict
    /\ data \in RenderInputs
    /\ screen = [notice |-> FALSE, panel |-> <<>>, win |-> <<>>]
    /\ \E sz \in RenderSizes : height = sz[1] /\ width = sz[2]
    /\ keyq = <<>>
    /\ last = Step("start", None, NoKey, 0)
    /\ early = <<>>

\* main.py:90-151, one call draw_telemetry_box(stdscr, data); `win` is what
\* the call wrote into telemetry_win
Render ==
    /\ last.op = "start"
    /\ LET r == draw_telemetry_box(data, height, width)
       IN /\ screen' = [notice |-> r.notice, panel |-> r.panel,
                        win |-> IF r.ok THEN <<telemetry_win(data)>> ELSE <<>>]
          /\ state' = IF r.ok THEN "Running" ELSE "Stopped"
    /\ last' = Step("draw", None, NoKey, 1)
    /\ UNCHANGED <<player_car_index, motion_data, status_data, car_setup_data,
                   data, height, width, keyq, early>>

RenderNext == Render

RenderSpec == RenderInit /\ [][RenderNext]_vars

----------------------------------------------------------------------------
(* Vocabulary of the properties *)

\* this step ingested a packet of kind k
Ingested(k) ==
    /\ state = "Running"
    /\ last'.op = "ingest" /\ last'.kind = k
    /\ keyq' = keyq

\* the last step of the loop ingested a packet of kind k
JustIngested(k) == last.op = "ingest" /\ last.kind = k

\* this step is the key poll that ends a tick
Polled ==
    /\ state = "Running"
    /\ last'.op = "poll"
    /\ Len(keyq') <= Len(keyq)

\* the three mappings of the State Store
Store3 == <<motion_data, status_data, car_setup_data>>

\* what the Renderer leaves on a surface of h rows and w columns for snapshot d
Drawn(d, h, w) ==
    IF w < 75 \/ h < 15
    THEN [notice |-> TRUE, panel |-> <<>>]
    ELSE [notice |-> FALSE, panel |-> <<PanelContent(d)>>]

\* the elements of a sequence
Range(q) == {q[i] : i \in 1..Len(q)}

\* draw_telemetry_box drew the panel
Rendered == last.op = "draw" /\ screen.win # <<>>

\* the rotation-rate gauge of the panel drawn
Gauge == screen.win[1].rpm_bar

\* the number of filled cells the gauge shows
FilledCells ==
    Cardinality({i \in DOMAIN Gauge.cells : Gauge.cells[i].str = "|"})

\* the tier of an rpm, a tyre temperature and a tyre wear
RpmTier(rpm) ==
    IF rpm < 10000 THEN "normal" ELSE IF rpm < 12000 THEN "warning" ELSE "critical"
TemperatureTier(temp) ==
    IF temp <= 150 THEN "normal" ELSE IF temp <= 250 THEN "warning" ELSE "critical"
WearTier(wear) ==
    IF wear <= 50 THEN "normal" ELSE IF wear <= 75 THEN "warning" ELSE "critical"

\* the colour of each tier on the rotation-rate gauge and on the tyre lines,
\* and the neutral colour
RpmTierColour == [normal |-> "GREEN", warning |-> "RED", critical |-> "MAGENTA"]
TyreTierColour == [normal |-> "GREEN", warning |-> "YELLOW", critical |-> "RED"]
Neutral == "WHITE"

----------------------------------------------------------------------------
(* C1 *)

\* C1: the Renderer runs once in the step that ingests a PrimaryTelemetry
\* packet, on the Snapshot built from that packet (the surface then shows
\* that Snapshot, or the notice), and in no other step: the surface changes
\* only in such a step, and a Motion, Status or Setup step leaves it alone.
C1_RenderOnTelemetryOnly ==
    [][ /\ Ingested(TelemetryId) =>
             /\ last'.draws = 1
             /\ screen' = Drawn(data', height', width')
             /\ \E e \in TelemetryEvents :
                   /\ e.header = player_car_index'
                   /\ data'.engine_speed = e.cars[e.header].m_speed
                   /\ data'.engine_rpm = e.cars[e.header].m_engineRPM
        /\ (screen' # screen \/ height' # height \/ width' # width \/ data' # data)
             => Ingested(TelemetryId)
        /\ \A k \in {MotionId, StatusId, SetupId} :
             Ingested(k) => last'.draws = 0 /\ UNCHANGED <<screen, data, state>>
      ]_vars

\* a Snapshot was rendered, then a Motion packet was cached, and the surface
\* still shows the Snapshot of the telemetry packet
C1_Witness ==
    /\ JustIngested(MotionId)
    /\ player_car_index \in DOMAIN motion_data
    /\ "g_force" \notin DOMAIN data
    /\ screen = [notice |-> FALSE, panel |-> <<PanelContent(data)>>]

----------------------------------------------------------------------------
(* C2 *)

\* C2: the tracked identifier changes only in a step that ingests a
\* PrimaryTelemetry packet, and such a step sets it to the identifier in the
\* packet's header (no step ingests a telemetry packet whose header names
\* another identifier than the one tracked after it); every other step
\* leaves it unchanged.
C2_TrackedOnlyFromTelemetry ==
    [][ /\ player_car_index' # player_car_index => Ingested(TelemetryId)
        /\ \A e \in TelemetryEvents :
             e.header # player_car_index' =>
               \A sz \in Sizes : ~IngestTelemetry(e, sz[1], sz[2])
        /\ Ingested(TelemetryId) => player_car_index' \in Cars
      ]_vars

\* car 0 was tracked (its Motion entry is cached), telemetry moved the
\* tracked identifier to car 1, and an unrecognized packet then left it there
C2_Witness ==
    /\ player_car_index = 1
    /\ DOMAIN motion_data = {0}
    /\ last.op = "ingest" /\ last.kind \in OtherIds

----------------------------------------------------------------------------
(* C3 *)

\* C3 as stated: once a Setup packet has set the fuel of the tracked entity,
\* the Snapshot of the next PrimaryTelemetry packet has that fuel, whichever
\* entity that packet names.
C3_FuelStickyAsStated ==
    [][ (Ingested(TelemetryId) /\ player_car_index \in DOMAIN car_setup_data)
          => data'.fuel = car_setup_data[player_car_index].m_fuelLoad
      ]_vars

\* C3 amended: a Setup packet ingested while an entity is tracked sets the
\* cached fuel of that entity and of no other, and nothing else changes the
\* cache; the Snapshot of a PrimaryTelemetry packet has the cached fuel of the
\* entity the packet names when the cache has an entry for it, and the fuel
\* of the previous Snapshot (0 if there is none) when it has not.
C3_FuelSticky ==
    [][ /\ Ingested(TelemetryId) =>
             data'.fuel =
               IF player_car_index' \in DOMAIN car_setup_data
               THEN car_setup_data[player_car_index'].m_fuelLoad
               ELSE IF "fuel" \in DOMAIN data THEN data.fuel ELSE 0
        /\ car_setup_data' # car_setup_data => Ingested(SetupId)
        /\ \A e \in SetupEvents :
             (IngestSetup(e) /\ player_car_index # None) =>
               /\ DOMAIN car_setup_data' = DOMAIN car_setup_data \cup {player_car_index}
               /\ \A c \in DOMAIN car_setup_data' :
                    car_setup_data'[c] =
                      IF c = player_car_index THEN e.cars[c] ELSE car_setup_data[c]
      ]_vars

\* fuel 42.0 was set for one entity and shown, the tracked identifier then
\* moved to an entity with no Setup entry, and the Snapshot kept 42.0
C3_Witness ==
    /\ JustIngested(TelemetryId)
    /\ player_car_index \notin DOMAIN car_setup_data
    /\ car_setup_data # EmptyDict
    /\ data.fuel = 42000

----------------------------------------------------------------------------
(* C4 *)

\* C4 as stated: a Motion packet ingested before any PrimaryTelemetry packet
\* changes nothing on the surface, and the Snapshot of the first
\* PrimaryTelemetry packet after it has the g-force that Motion packet
\* carries for the entity now tracked.
C4_EarlyMotionAsStated ==
    [][ /\ (player_car_index = None /\ Ingested(MotionId))
             => UNCHANGED <<data, screen>>
        /\ (player_car_index = None /\ early # <<>> /\ Ingested(TelemetryId))
             => /\ "g_force" \in DOMAIN data'
                /\ data'.g_force = early[1][player_car_index'].m_gForceLateral
      ]_vars

\* C4 amended: a Motion packet ingested before any PrimaryTelemetry packet
\* produces no Snapshot and is not cached, and the Snapshot of the first
\* PrimaryTelemetry packet has no g-force entry: the panel shows g-force 0.
C4_EarlyMotion ==
    [][ /\ (player_car_index = None /\ Ingested(MotionId))
             => UNCHANGED <<data, screen, motion_data>>
        /\ (player_car_index = None /\ Ingested(TelemetryId))
             => /\ "g_force" \notin DOMAIN data'
                /\ ~screen'.notice => screen'.panel[1].g_force = 0
      ]_vars

\* a Motion packet with a non-zero g-force for the tracked entity came
\* first, and the panel of the telemetry packet after it shows g-force 0
C4_Witness ==
    /\ early # <<>>
    /\ JustIngested(TelemetryId)
    /\ player_car_index # None
    /\ early[1][player_car_index].m_gForceLateral # 0
    /\ ~screen.notice /\ screen.panel # <<>>
    /\ screen.panel[1].g_force = 0

----------------------------------------------------------------------------
(* C5 *)

\* C5: while no tracked identifier is established the three mappings are
\* empty, and a step that ingests a Motion, Status or Setup packet then
\* leaves them empty, renders nothing, and leaves the loop Running.
C5_DroppedBeforeTelemetry ==
    [][ /\ player_car_index' = None =>
             /\ DOMAIN motion_data' = {}
             /\ DOMAIN status_data' = {}
             /\ DOMAIN car_setup_data' = {}
             /\ DOMAIN data' = {}
             /\ screen'.panel = <<>> /\ ~screen'.notice
        /\ \A k \in {MotionId, StatusId, SetupId} :
             (player_car_index = None /\ Ingested(k)) =>
               /\ state' = "Running"
               /\ player_car_index' = None
               /\ UNCHANGED <<Store3, data, screen>>
      ]_vars

\* a Motion packet and then a Setup packet were ingested with no tracked
\* identifier
C5_Witness ==
    /\ player_car_index = None
    /\ early # <<>>
    /\ JustIngested(SetupId)
    /\ state = "Running"

----------------------------------------------------------------------------
(* C6 *)

\* C6 as stated: on a PrimaryTelemetry packet that is rendered, each of
\* g-force, tyre wear and fuel is shown as zero when the mapping of its kind
\* has no entry for the identifier the packet names.
C6_ZeroDefaultsAsStated ==
    [][ (Ingested(TelemetryId) /\ ~screen'.notice) =>
          LET p == player_car_index'
              panel == screen'.panel[1]
          IN /\ p \notin DOMAIN motion_data => panel.g_force = 0
             /\ p \notin DOMAIN status_data => panel.tire_wear = <<0, 0, 0, 0>>
             /\ p \notin DOMAIN car_setup_data => panel.fuel = 0
      ]_vars

\* C6 amended: g-force and tyre wear are shown as zero when the mapping of
\* their kind has no entry for the identifier the packet names; fuel is then
\* shown as the previous panel showed it, and as 0 when there was no
\* previous panel.
C6_ZeroDefaults ==
    [][ (Ingested(TelemetryId) /\ ~screen'.notice) =>
          LET p == player_car_index'
              panel == screen'.panel[1]
          IN /\ p \notin DOMAIN motion_data => panel.g_force = 0
             /\ p \notin DOMAIN status_data => panel.tire_wear = <<0, 0, 0, 0>>
             /\ p \notin DOMAIN car_setup_data =>
                  panel.fuel = IF screen.panel = <<>> THEN 0
                               ELSE screen.panel[1].fuel
      ]_vars

\* the tracked identifier moved to an entity with no entry in any mapping
\* while the other entity has all three: g-force and wear are shown as zero,
\* fuel is not
C6_Witness ==
    /\ JustIngested(TelemetryId)
    /\ player_car_index # None
    /\ \A m \in {motion_data, status_data, car_setup_data} :
         DOMAIN m = Cars \ {player_car_index}
    /\ ~screen.notice /\ screen.panel # <<>>
    /\ screen.panel[1].g_force = 0
    /\ screen.panel[1].tire_wear = <<0, 0, 0, 0>>
    /\ screen.panel[1].fuel # 0

----------------------------------------------------------------------------
(* C7 *)

\* C7: when the surface is narrower than 75 columns or shorter than 15 rows
\* at a render, the surface holds the notice and no panel, the loop is
\* Stopped in that same step with the State Store and the keyboard queue
\* untouched, and a Stopped loop takes no further step.
C7_TooSmallStops ==
    [][ /\ (Ingested(TelemetryId) /\ (width' < 75 \/ height' < 15)) =>
             /\ screen' = [notice |-> TRUE, panel |-> <<>>]
             /\ state' = "Stopped"
             /\ UNCHANGED <<Store3, keyq>>
        /\ (Ingested(TelemetryId) /\ width' >= 75 /\ height' >= 15) =>
             /\ ~screen'.notice
             /\ state' = "Running"
        /\ state = "Stopped" =>
             UNCHANGED <<Store3, player_car_index, data, screen, keyq, last>>
      ]_vars

\* the loop stopped on a surface of 74 columns showing the notice alone,
\* with a cached entry and an unread key left as they were
C7_Witness ==
    /\ state = "Stopped"
    /\ width = 74 /\ height = 15
    /\ screen = [notice |-> TRUE, panel |-> <<>>]
    /\ JustIngested(TelemetryId)
    /\ car_setup_data # EmptyDict
    /\ keyq # <<>>

----------------------------------------------------------------------------
(* C8 *)

\* C8: the loop goes from Running to Stopped only in a step whose render
\* failed or whose key poll read the quit key; a key poll that reads another
\* key or no key, with or without packets before it, leaves the loop Running.
C8_StopsOnlyOnFailureOrQuit ==
    [][ /\ (state = "Running" /\ state' = "Stopped") =>
             \/ Ingested(TelemetryId) /\ screen'.notice
             \/ Polled /\ keyq # <<>> /\ Head(keyq) = "q" /\ last'.key = "q"
        /\ (Polled /\ (keyq = <<>> \/ Head(keyq) # "q")) => state' = "Running"
        /\ (\E k \in {MotionId, StatusId, SetupId} \cup OtherIds : Ingested(k))
             => state' = "Running"
      ]_vars

\* a key poll read a key other than the quit key and the loop is Running
C8_Witness ==
    /\ last.op = "poll" /\ last.key = "x"
    /\ state = "Running"

----------------------------------------------------------------------------
(* C9 *)

\* C9 as stated: a key poll made while the quit key is among the unread keys
\* stops the loop.
C9_QuitStopsAtThisPoll ==
    [][ (Polled /\ QuitKey \in Range(keyq)) => state' = "Stopped" ]_vars

----------------------------------------------------------------------------
(* C10 *)

\* C10 as stated: once the quit key has been pressed while the loop is
\* Running, the loop eventually is Stopped.
C10_QuitEventuallyStops ==
    (state = "Running" /\ QuitKey \in Range(keyq)) ~> (state = "Stopped")

----------------------------------------------------------------------------
(* C11 *)

\* C11 as stated: a Motion, Status or Setup packet ingested while an entity
\* is tracked leaves the mapping of its kind holding the packet's payload of
\* every entity the packet carries.
C11_EveryEntityStoredAsStated ==
    [][ player_car_index # None =>
          /\ \A e \in MotionEvents : IngestMotion(e) =>
                \A c \in Cars :
                  c \in DOMAIN motion_data' /\ motion_data'[c] = e.cars[c]
          /\ \A e \in StatusEvents : IngestStatus(e) =>
                \A c \in Cars :
                  c \in DOMAIN status_data' /\ status_data'[c] = e.cars[c]
          /\ \A e \in SetupEvents : IngestSetup(e) =>
                \A c \in Cars :
                  c \in DOMAIN car_setup_data' /\ car_setup_data'[c] = e.cars[c]
      ]_vars

\* C11 amended: a Motion, Status or Setup packet ingested while an entity is
\* tracked sets the entry of the tracked entity in the mapping of its kind
\* to the packet's payload of that entity; the mapping gains no other key
\* and every other entry stays as it was, so the payloads the packet carries
\* for the other entities are not stored.
C11_TrackedEntityStored ==
    [][ player_car_index # None =>
          LET p == player_car_index
          IN /\ \A e \in MotionEvents : IngestMotion(e) =>
                   /\ DOMAIN motion_data' = DOMAIN motion_data \cup {p}
                   /\ motion_data'[p] = e.cars[p]
                   /\ \A c \in DOMAIN motion_data \ {p} :
                        motion_data'[c] = motion_data[c]
             /\ \A e \in StatusEvents : IngestStatus(e) =>
                   /\ DOMAIN status_data' = DOMAIN status_data \cup {p}
                   /\ status_data'[p] = e.cars[p]
                   /\ \A c \in DOMAIN status_data \ {p} :
                        status_data'[c] = status_data[c]
             /\ \A e \in SetupEvents : IngestSetup(e) =>
                   /\ DOMAIN car_setup_data' = DOMAIN car_setup_data \cup {p}
                   /\ car_setup_data'[p] = e.cars[p]
                   /\ \A c \in DOMAIN car_setup_data \ {p} :
                        car_setup_data'[c] = car_setup_data[c]
      ]_vars

\* a Status packet carrying two entities was ingested while the first was
\* tracked, and the mapping holds the first entity's payload alone
C11_Witness ==
    /\ JustIngested(StatusId)
    /\ player_car_index = 0
    /\ DOMAIN status_data = {0}
    /\ \A e \in StatusEvents : status_data[0] = e.cars[0] /\ DOMAIN e.cars = Cars

----------------------------------------------------------------------------
(* C12 *)

\* C12: for every rpm from 0 to maxRpm (15000) the gauge has 30 cells, the
\* filled ones are the leftmost floor(rpm * 30 / maxRpm) of them, rpm =
\* maxRpm fills all 30 and rpm = 0 fills none.
C12_FillIsFloor ==
    (Rendered /\ data.engine_rpm \in 0..15000) =>
       /\ DOMAIN Gauge.cells = 0..29
       /\ FilledCells = (data.engine_rpm * 30) \div 15000
       /\ \A i \in DOMAIN Gauge.cells :
            Gauge.cells[i].str = "|" <=> i < FilledCells
       /\ data.engine_rpm = 15000 => FilledCells = 30
       /\ data.engine_rpm = 0 => FilledCells = 0

\* the gauge was drawn for rpm 14999, one below maxRpm, with 29 cells filled
C12_Witness ==
    /\ Rendered
    /\ data.engine_rpm = 14999
    /\ FilledCells = 29

----------------------------------------------------------------------------
(* C13 *)

\* C13: every cell of the gauge is written in the colour of the tier of the
\* rpm, the tier being normal below 10000, warning from 10000 to 11999 and
\* critical from 12000, and the colours of the three tiers are three
\* different colours.
C13_RpmTiers ==
    Rendered =>
       /\ \A i \in DOMAIN Gauge.cells :
            Gauge.cells[i].attr = RpmTierColour[RpmTier(data.engine_rpm)]
       /\ Cardinality({RpmTierColour[t] : t \in {"normal", "warning", "critical"}}) = 3

\* the gauge was drawn for rpm 10000, the lowest rpm of the warning tier, in
\* the colour of that tier
C13_Witness ==
    /\ Rendered
    /\ data.engine_rpm = 10000
    /\ Gauge.cells[0].attr = RpmTierColour["warning"]
    /\ Gauge.cells[0].attr # RpmTierColour["normal"]

----------------------------------------------------------------------------
(* C14 *)

\* C14: for each of the four wheels the temperature line is written in the
\* colour of the tier of the temperature (normal up to 150, warning up to
\* 250, critical above) and the wear line in the colour of the tier of the
\* wear (normal up to 50, warning up to 75, critical above), one colour per
\* tier for both kinds of line.
C14_TyreTiers ==
    Rendered =>
       \A i \in 1..4 :
          /\ screen.win[1].temperatures[i].str[2] = data.tire_temperatures[i]
          /\ screen.win[1].temperatures[i].attr =
               TyreTierColour[TemperatureTier(data.tire_temperatures[i])]
          /\ screen.win[1].wear[i].str[2] = data.tire_wear[i]
          /\ screen.win[1].wear[i].attr =
               TyreTierColour[WearTier(data.tire_wear[i])]

\* the tyre lines were drawn for temperatures 150, 151, 250, 251 and wear
\* 50, 51, 75, 76: normal, warning, warning, critical for both
C14_Witness ==
    /\ Rendered
    /\ data.tire_temperatures = <<150, 151, 250, 251>>
    /\ data.tire_wear = <<50, 51, 75, 76>>
    /\ [i \in 1..4 |-> screen.win[1].temperatures[i].attr]
         = <<"GREEN", "YELLOW", "YELLOW", "RED">>
    /\ [i \in 1..4 |-> screen.win[1].wear[i].attr]
         = <<"GREEN", "YELLOW", "YELLOW", "RED">>

----------------------------------------------------------------------------
(* C15 *)

\* C15 as stated: the filled cells and the rpm readout are written in the
\* colour of the tier of the rpm, the two brackets in the neutral colour.
C15_ReadoutInTierColourAsStated ==
    Rendered =>
       /\ \A i \in DOMAIN Gauge.cells :
            Gauge.cells[i].str = "|" =>
              Gauge.cells[i].attr = RpmTierColour[RpmTier(data.engine_rpm)]
       /\ Gauge.readout.attr = RpmTierColour[RpmTier(data.engine_rpm)]
       /\ Gauge.open.attr = Neutral
       /\ Gauge.close.attr = Neutral

\* C15 amended: the cells of the bar, filled or not, are written in the
\* colour of the tier of the rpm; the two brackets and the rpm readout are
\* written in the neutral colour.
C15_ReadoutNeutral ==
    Rendered =>
       /\ \A i \in DOMAIN Gauge.cells :
            Gauge.cells[i].attr = RpmTierColour[RpmTier(data.engine_rpm)]
       /\ Gauge.readout.str[1] = data.engine_rpm
       /\ Gauge.readout.attr = Neutral
       /\ Gauge.open.str = "[" /\ Gauge.open.attr = Neutral
       /\ Gauge.close.str = "]" /\ Gauge.close.attr = Neutral

\* the gauge was drawn for rpm 12000: filled cells in the critical colour,
\* the readout 12000 in the neutral colour
C15_Witness ==
    /\ Rendered
    /\ data.engine_rpm = 12000
    /\ Gauge.cells[0].str = "|"
    /\ Gauge.cells[0].attr = RpmTierColour["critical"]
    /\ Gauge.readout.str[1] = 12000
    /\ Gauge.readout.attr = Neutral

----------------------------------------------------------------------------
(* C16 *)

\* C16: the Snapshot of a step that ingests a PrimaryTelemetry packet has the
\* speed, rpm, gear, throttle, brake and tyre temperatures that the packet
\* carries for the entity its own header names.
C16_SnapshotFromOwnHeader ==
    [][ Ingested(TelemetryId) =>
          \A e \in TelemetryEvents :
             (e.header = player_car_index' /\ IngestTelemetry(e, height', width'))
               => LET car == e.cars[e.header]
                  IN /\ data'.engine_speed = car.m_speed
                     /\ data'.engine_rpm = car.m_engineRPM
                     /\ data'.gear = car.m_gear
                     /\ data'.throttle = car.m_throttle
                     /\ data'.brake = car.m_brake
                     /\ data'.tire_temperatures = car.m_tyresSurfaceTemperature
      ]_vars

\* the first entity was tracked and has an entry in every mapping, then a
\* telemetry packet named the second entity: the Snapshot has the values the
\* packet carries for the second entity
C16_Witness ==
    /\ JustIngested(TelemetryId)
    /\ player_car_index = 1
    /\ \A m \in {motion_data, status_data, car_setup_data} : DOMAIN m = {0}
    /\ \E e \in TelemetryEvents :
         /\ data.engine_rpm = e.cars[1].m_engineRPM
         /\ data.engine_rpm # e.cars[0].m_engineRPM
         /\ data.tire_temperatures = e.cars[1].m_tyresSurfaceTemperature

----------------------------------------------------------------------------
(* C17 *)

\* C17 as stated: when rpm exceeds maxRpm the gauge draws
\* floor(rpm * 30 / maxRpm) filled cells, more than the 30 cells of the bar.
C17_OverfillAsStated ==
    (Rendered /\ data.engine_rpm > 15000) =>
       /\ FilledCells = (data.engine_rpm * 30) \div 15000
       /\ FilledCells > 30

\* C17 amended: when rpm exceeds maxRpm the gauge draws its 30 cells and no
\* more, all of them filled and all of them between the two brackets.
C17_FillStopsAtBar ==
    (Rendered /\ data.engine_rpm > 15000) =>
       /\ DOMAIN Gauge.cells = 0..29
       /\ FilledCells = 30
       /\ Gauge.close.x = Gauge.open.x + 31
       /\ \A i \in DOMAIN Gauge.cells :
            /\ Gauge.cells[i].y = Gauge.open.y
            /\ Gauge.open.x < Gauge.cells[i].x
            /\ Gauge.cells[i].x < Gauge.close.x

\* the gauge was drawn for rpm 61500, more than four times maxRpm, with 30
\* filled cells
C17_Witness ==
    /\ Rendered
    /\ data.engine_rpm = 61500
    /\ FilledCells = 30
    /\ Cardinality(DOMAIN Gauge.cells) = 30

----------------------------------------------------------------------------
(* C18 *)

\* C18: in every step each of the three mappings keeps every key it had, a
\* mapping changes only in a step that ingests a packet of its own kind, and
\* a step that ingests a PrimaryTelemetry packet or a packet of another kind
\* leaves the three mappings as they were.
C18_NoEviction ==
    [][ /\ DOMAIN motion_data \subseteq DOMAIN motion_data'
        /\ DOMAIN status_data \subseteq DOMAIN status_data'
        /\ DOMAIN car_setup_data \subseteq DOMAIN car_setup_data'
        /\ motion_data' # motion_data => Ingested(MotionId)
        /\ status_data' # status_data => Ingested(StatusId)
        /\ car_setup_data' # car_setup_data => Ingested(SetupId)
        /\ (Ingested(TelemetryId) \/ \E k \in OtherIds : Ingested(k))
             => UNCHANGED Store3
      ]_vars

\* every mapping holds an entry for both entities although only one is
\* tracked, and a telemetry packet has been ingested since
C18_Witness ==
    /\ JustIngested(TelemetryId)
    /\ player_car_index \in Cars
    /\ \A m \in {motion_data, status_data, car_setup_data} : DOMAIN m = Cars

----------------------------------------------------------------------------
(* C19 *)

\* C19: a step that ingests a packet whose kind is not 0, 5, 6 or 7 leaves
\* the tracked identifier, the three mappings, the Snapshot and the surface
\* unchanged, calls the Renderer no time, and leaves the loop Running.
C19_UnrecognizedIgnored ==
    [][ ( /\ state = "Running"
          /\ last'.op = "ingest"
          /\ last'.kind \notin {0, 5, 6, 7}
          /\ keyq' = keyq )
          => /\ UNCHANGED <<player_car_index, Store3, data, screen, height, width>>
             /\ last'.draws = 0
             /\ state' = "Running"
      ]_vars

\* a packet of an unrecognized kind was ingested after a Snapshot was
\* rendered and entries were cached; the loop is Running
C19_Witness ==
    /\ last.op = "ingest"
    /\ last.kind \notin {0, 5, 6, 7}
    /\ state = "Running"
    /\ data # EmptyDict
    /\ screen.panel # <<>>
    /\ status_data # EmptyDict

----------------------------------------------------------------------------
(* C20 *)

\* C20 as stated: on every surface at least 75 columns wide and 15 rows high
\* the Renderer succeeds, and the panel of 15 rows and 75 columns it places
\* at row 1, column 2 lies inside the surface.
C20_PanelInsideSurface ==
    (last.op = "draw" /\ width >= 75 /\ height >= 15) =>
       /\ Rendered
       /\ ~screen.notice
       /\ state = "Running"
       /\ LET w == screen.win[1].win
          IN /\ w.nlines = 15 /\ w.ncols = 75
             /\ w.begin_y = 1 /\ w.begin_x = 2
             /\ w.begin_y + w.nlines <= height
             /\ w.begin_x + w.ncols <= width

====
